---- MODULE Spec2Model ----
(***************************************************************************)
(* go-h264-streamer: the stream reframer (stream/streaming.go: Video,      *)
(* startCamera and its read loop) and the broadcast hub                    *)
(* (websocket_handler.go: Handler, run, Write), wired as in main.          *)
(*                                                                         *)
(* Go slices are 0-based and half open; Slice(b, lo, hi) is b[lo:hi].      *)
(* A goroutine is a position variable (spc, vpc, hpc, cst, rst, wst); an   *)
(* unbuffered channel operation is one action taken by sender and receiver *)
(* together; a buffered channel is a sequence.                             *)
(***************************************************************************)
EXTENDS Integers, Sequences, FiniteSets, TLC

(***************************************************************************)
(* Bounds of the model.                                                    *)
(***************************************************************************)
\* Connections ever accepted by Handler (each is a fresh *connection).
NumConns == 2
\* Connections a goroutine table has room for; SpecPipeline accepts them all.
MaxConns == 3
\* Producer outputs enumerated for the read loop: up to MaxTokens tokens, a
\* token being one byte or one start code.
MaxTokens == 6
\* Write calls made by the direct caller of the hub's io.Writer.
MaxWrites == 11

\* Free bytes left in the buffer where SpecFull starts.
FullMargin == 2
\* Tokens the producer writes after that.
MaxTail == 3
\* Length of the buffer in SpecSmall.
SmallBuffer == 6

(***************************************************************************)
(* Program constants.                                                      *)
(***************************************************************************)
readBufferSize == 4096
bufferSizeKB == 256
nalSeparator == <<0, 0, 0, 1>>
NALlen == Len(nalSeparator)
BufferSize == bufferSizeKB * 1024
\* make(chan []byte, 10) in Handler
MailboxCap == 10
\* make(chan int, 2) in main
CountCap == 2

Conns == 1..NumConns
AllConns == 1..MaxConns
\* One startCamera goroutine per zero-to-nonzero transition at most.
Sessions == 1..MaxConns

\* Byte values enumerated for producer output: the two bytes of the start
\* code and one other byte.
Byte == {0, 1, 2}

Min(a, b) == IF a < b THEN a ELSE b

Slice(b, lo, hi) == SubSeq(b, lo + 1, hi)

LastMutFirst(q) == q[1]
Last(q) == q[Len(q)]

\* The byte streams made of at most n tokens of T.
RECURSIVE Streams(_, _)
Streams(T, n) ==
    IF n = 0 THEN {<<>>}
    ELSE LET shorter == Streams(T, n - 1)
         IN shorter \cup {q \o tok : q \in shorter, tok \in T}

(***************************************************************************)
(* State.                                                                  *)
(***************************************************************************)
VARIABLES
    input,            \* the bytes a producer process writes to its stdout
    \* Video
    vpc,              \* "range": receiving from connectionsChange; "stop": in stopChan <- struct{}{}
    firstConnection,
    cameraStarted,    \* sync.Mutex: the session holding it, 0 when unlocked
    \* startCamera goroutines
    spc,              \* position of each startCamera goroutine
    proc,             \* its child process
    pos,              \* bytes of the producer's output it has read
    buffer,           \* buffer[0:currentPos]
    currentPos,
    bufferLen,        \* len(buffer), the same in every session
    emitted,          \* the frames it has passed to writer.Write, in order
    \* webSocketHandler
    connections,      \* the keys of the connections map
    hpc,              \* "select", "count" (in connectionNumber <- len), "bcast" (in the range loop)
    hmsg,             \* msg of the broadcast case
    hid,              \* whose Write it came from: <<session, number of the frame>>
    htodo,            \* connections the range loop has still to visit
    connectionNumber, \* the buffered chan int, nil when attached is FALSE
    attached,         \* connectionNumber != nil
    \* connections
    cst,              \* Handler: "new", "open" (in <-errorCh), "closing" (in unregister <- c), "done"
    rst,              \* reader goroutine: "off", "run", "err" (in errCh <- true), "done"
    wst,              \* writer goroutine: likewise
    send,             \* c.send: the queued messages
    closed,           \* close(c.send) calls on each connection
    lastQueued,       \* the hid of the last message queued on c.send
    \* a caller of the hub's Write other than a session
    xpc,              \* "idle", "write", "bsend"
    xcount,           \* Write calls it has made
    \* bookkeeping of events
    starts,           \* go startCamera statements executed
    stops,            \* stopChan sends begun
    firstRegs,        \* registrations that found the map empty
    lastUnregs        \* unregistrations that emptied the map

vars == <<input, vpc, firstConnection, cameraStarted, spc, proc, pos, buffer,
          currentPos, bufferLen, emitted, connections, hpc, hmsg, hid, htodo, connectionNumber,
          attached, cst, rst, wst, send, closed, lastQueued, xpc, xcount, starts,
          stops, firstRegs, lastUnregs>>

videoVars == <<vpc, firstConnection, starts, stops>>
readVars  == <<pos, buffer, currentPos, bufferLen, emitted>>
hubVars   == <<connections, hpc, hmsg, hid, htodo, connectionNumber, attached,
               firstRegs, lastUnregs>>
connVars  == <<cst, rst, wst, send, closed, lastQueued>>
extVars   == <<xpc, xcount>>

(***************************************************************************)
(* The read loop's arithmetic (startCamera, the default branch).           *)
(***************************************************************************)
\* bytes.Index: the lowest index of sep in s, or -1.
BytesIndex(s, sep) ==
    LET hits == {i \in 0..(Len(s) - Len(sep)) : Slice(s, i, i + Len(sep)) = sep}
    IN IF hits = {} THEN -1 ELSE CHOOSE i \in hits : \A j \in hits : i <= j

\* copied := copy(buffer[currentPos:], p[:n])
CopiedMutNoClamp(cp, n) == n
Copied(cp, n) == Min(n, bufferLen - cp)

\* startPosSearch := currentPos - NALlen, clamped at 0
StartPosSearch(cp) == IF cp - NALlen < 0 THEN 0 ELSE cp - NALlen

\* buffer[0:endPos] once p[:n] is copied in at currentPos
Filled(buf, cp, p) == Slice(buf, 0, cp) \o Slice(p, 0, Copied(cp, Len(p)))

\* nalIndex := bytes.Index(buffer[startPosSearch:endPos], nalSeparator)
NalIndex(buf, cp, p) ==
    BytesIndex(Slice(Filled(buf, cp, p), StartPosSearch(cp), cp + Copied(cp, Len(p))),
               nalSeparator)

\* if nalIndex > 0
FoundMutGe(nalIndex) == nalIndex >= 0
Found(nalIndex) == nalIndex > 0

\* On a match: broadcast := buffer[0:nalIndex] goes to the writer, then
\* copy(buffer, buffer[nalIndex:currentPos]); currentPos -= nalIndex.
CarveMutSkip(filled, nalIndex, endPos) ==
    LET from == Min(nalIndex + NALlen, endPos)
    IN [buffer     |-> Slice(filled, from, endPos),
        currentPos |-> endPos - from,
        frames     |-> <<Slice(filled, 0, nalIndex)>>]
CarveMutNoShift(filled, nalIndex, endPos) ==
    [buffer     |-> Slice(filled, 0, endPos),
     currentPos |-> endPos,
     frames     |-> <<Slice(filled, 0, nalIndex)>>]
Carve(filled, nalIndex, endPos) ==
    [buffer     |-> Slice(filled, nalIndex, endPos),
     currentPos |-> endPos - nalIndex,
     frames     |-> <<Slice(filled, 0, nalIndex)>>]

\* One pass of the default branch over the chunk p just read: the buffer's
\* valid bytes and currentPos after it, and the frames handed to the writer.
Iterate(buf, cp, p) ==
    LET filled == Filled(buf, cp, p)
        endPos == cp + Copied(cp, Len(p))
        rel    == NalIndex(buf, cp, p)
    IN IF Found(rel)
       THEN Carve(filled, rel + StartPosSearch(cp), endPos)
       ELSE [buffer |-> filled, currentPos |-> endPos, frames |-> <<>>]

(***************************************************************************)
(* startCamera: one goroutine per `go startCamera` of Video.               *)
(***************************************************************************)
\* The process has not called os.Exit: its goroutines take steps.
Alive == \A s \in Sessions : spc[s] # "fatal"

\* mutex.Lock() returns only while no other goroutine holds the mutex.
MutexFreeMutNoLock == TRUE
MutexFree == cameraStarted = 0

\* mutex.Lock()
SessLock(s) ==
    /\ Alive
    /\ spc[s] = "lock"
    /\ MutexFree
    /\ cameraStarted' = s
    /\ spc' = [spc EXCEPT ![s] = "start"]
    /\ UNCHANGED <<input, proc, readVars, videoVars, hubVars, connVars, extVars>>

\* exec.CommandContext, cmd.StdoutPipe, cmd.Start; p, buffer, currentPos := 0
SessStart(s) ==
    /\ Alive
    /\ spc[s] = "start"
    /\ proc' = [proc EXCEPT ![s] = "running"]
    /\ spc' = [spc EXCEPT ![s] = "select"]
    /\ UNCHANGED <<input, cameraStarted, readVars, videoVars, hubVars, connVars, extVars>>

\* cmd.StdoutPipe or cmd.Start returns an error: log.Fatal(err) prints it
\* and calls os.Exit(1); no deferred call runs and the process is gone
SessStartFail(s) ==
    /\ Alive
    /\ spc[s] = "start"
    /\ spc' = [spc EXCEPT ![s] = "fatal"]
    /\ UNCHANGED <<input, cameraStarted, proc, readVars, videoVars, hubVars, connVars, extVars>>

\* case <-stop: the receive meets Video's stopChan <- struct{}{}
SessStop(s) ==
    /\ Alive
    /\ spc[s] = "select"
    /\ vpc = "stop"
    /\ vpc' = "range"
    /\ spc' = [spc EXCEPT ![s] = "cancel"]
    /\ UNCHANGED <<input, cameraStarted, proc, readVars, firstConnection, starts,
                   stops, hubVars, connVars, extVars>>

\* default: taken only when no stop is offered; the goroutine enters stdout.Read
SessDefault(s) ==
    /\ Alive
    /\ spc[s] = "select"
    /\ vpc # "stop"
    /\ spc' = [spc EXCEPT ![s] = "read"]
    /\ UNCHANGED <<input, cameraStarted, proc, readVars, videoVars, hubVars,
                   connVars, extVars>>

\* stdout.Read(p) returns n bytes, then the rest of the iteration up to
\* writer.Write(broadcast)
SessRead(s) ==
    /\ Alive
    /\ spc[s] = "read"
    /\ \E n \in 1..Min(readBufferSize, Len(input) - pos[s]) :
         LET it == Iterate(buffer[s], currentPos[s], Slice(input, pos[s], pos[s] + n))
         IN /\ pos' = [pos EXCEPT ![s] = pos[s] + n]
            /\ buffer' = [buffer EXCEPT ![s] = it.buffer]
            /\ currentPos' = [currentPos EXCEPT ![s] = it.currentPos]
            /\ emitted' = [emitted EXCEPT ![s] = emitted[s] \o it.frames]
            /\ spc' = [spc EXCEPT ![s] = IF it.frames = <<>> THEN "select" ELSE "write"]
    /\ UNCHANGED <<input, cameraStarted, proc, bufferLen, videoVars, hubVars, connVars,
                   extVars>>

\* stdout.Read(p) returns 0 bytes and an error other than io.EOF: it is
\* logged and the iteration goes on with p[:0]
SessReadErr(s) ==
    /\ Alive
    /\ spc[s] = "read"
    /\ proc[s] = "running"
    /\ LET it == Iterate(buffer[s], currentPos[s], <<>>)
       IN /\ buffer' = [buffer EXCEPT ![s] = it.buffer]
          /\ currentPos' = [currentPos EXCEPT ![s] = it.currentPos]
          /\ emitted' = [emitted EXCEPT ![s] = emitted[s] \o it.frames]
          /\ spc' = [spc EXCEPT ![s] = IF it.frames = <<>> THEN "select" ELSE "write"]
    /\ UNCHANGED <<input, cameraStarted, proc, pos, bufferLen, videoVars, hubVars,
                   connVars, extVars>>

\* The producer ends by itself, having written all its output; its stdout
\* reaches end of file once that output is read.
ProducerExit(s) ==
    /\ Alive
    /\ proc[s] = "running"
    /\ spc[s] \in {"select", "read", "write", "bsend"}
    /\ proc' = [proc EXCEPT ![s] = "ended"]
    /\ UNCHANGED <<input, cameraStarted, spc, readVars, videoVars, hubVars,
                   connVars, extVars>>

\* stdout.Read(p) returns io.EOF: return
SessEOF(s) ==
    /\ Alive
    /\ spc[s] = "read"
    /\ proc[s] = "ended"
    /\ pos[s] = Len(input)
    /\ spc' = [spc EXCEPT ![s] = "cancel"]
    /\ UNCHANGED <<input, cameraStarted, proc, readVars, videoVars, hubVars,
                   connVars, extVars>>

\* The deferred calls, last deferred first: cancel() kills the child,
SessCancel(s) ==
    /\ Alive
    /\ spc[s] = "cancel"
    /\ proc' = [proc EXCEPT ![s] = IF proc[s] = "running" THEN "killed" ELSE proc[s]]
    /\ spc' = [spc EXCEPT ![s] = "wait"]
    /\ UNCHANGED <<input, cameraStarted, readVars, videoVars, hubVars, connVars, extVars>>

\* cmd.Wait() returns once the child has exited and its pipe is closed,
SessWait(s) ==
    /\ Alive
    /\ spc[s] = "wait"
    /\ proc' = [proc EXCEPT ![s] = "reaped"]
    /\ spc' = [spc EXCEPT ![s] = "unlock"]
    /\ UNCHANGED <<input, cameraStarted, readVars, videoVars, hubVars, connVars, extVars>>

\* mutex.Unlock().
SessUnlock(s) ==
    /\ Alive
    /\ spc[s] = "unlock"
    /\ cameraStarted' = 0
    /\ spc' = [spc EXCEPT ![s] = "done"]
    /\ UNCHANGED <<input, proc, readVars, videoVars, hubVars, connVars, extVars>>

(***************************************************************************)
(* webSocketHandler.Write, as called by a session (writer.Write).          *)
(***************************************************************************)
\* if len(wsh.connections) <= 0 { return }
NoConnectionMutNever == FALSE
NoConnection == Cardinality(connections) <= 0

\* Write up to its return, or up to its wsh.broadcast <- data
SessWrite(s) ==
    /\ Alive
    /\ spc[s] = "write"
    /\ spc' = [spc EXCEPT ![s] = IF NoConnection THEN "select" ELSE "bsend"]
    /\ UNCHANGED <<input, cameraStarted, proc, readVars, videoVars, hubVars,
                   connVars, extVars>>

(***************************************************************************)
(* Video: the control loop over connectionsChange.                         *)
(***************************************************************************)
\* else if firstConnection
ShouldStartMutAlways(n) == n # 0
ShouldStart(n) == n # 0 /\ firstConnection

\* for n := range connectionsChange { ... }: one received value, up to the
\* go statement or up to the send on stopChan
VideoRecv ==
    /\ Alive
    /\ vpc = "range"
    /\ attached
    /\ connectionNumber # <<>>
    /\ LET n == Head(connectionNumber)
       IN /\ connectionNumber' = Tail(connectionNumber)
          /\ IF n = 0
             THEN /\ firstConnection' = TRUE
                  /\ vpc' = "stop"
                  /\ stops' = stops + 1
                  /\ UNCHANGED <<starts, spc>>
             ELSE IF ShouldStart(n)
             THEN /\ starts + 1 \in Sessions
                  /\ firstConnection' = FALSE
                  /\ starts' = starts + 1
                  /\ spc' = [spc EXCEPT ![starts + 1] = "lock"]
                  /\ UNCHANGED <<vpc, stops>>
             ELSE UNCHANGED <<firstConnection, vpc, stops, starts, spc>>
    /\ UNCHANGED <<input, cameraStarted, proc, readVars, connections, hpc, hmsg,
                   hid, htodo, attached, firstRegs, lastUnregs, connVars, extVars>>

(***************************************************************************)
(* webSocketHandler.run: the hub's event loop.                             *)
(***************************************************************************)
\* if wsh.connectionNumber != nil { wsh.connectionNumber <- len(...) }
AfterMembershipMutSilent == "select"
AfterMembership == IF attached THEN "count" ELSE "select"

\* case c := <-wsh.register, met by Handler's wsh.register <- c; Handler
\* then starts the reader and the writer and waits on errorCh
HubRegister(c) ==
    /\ Alive
    /\ hpc = "select"
    /\ cst[c] = "new"
    /\ connections' = connections \cup {c}
    /\ firstRegs' = IF connections = {} THEN firstRegs + 1 ELSE firstRegs
    /\ hpc' = AfterMembership
    /\ cst' = [cst EXCEPT ![c] = "open"]
    /\ rst' = [rst EXCEPT ![c] = "run"]
    /\ wst' = [wst EXCEPT ![c] = "run"]
    /\ UNCHANGED <<input, cameraStarted, spc, proc, readVars, videoVars, hmsg, hid,
                   htodo, connectionNumber, attached, lastUnregs, send, closed,
                   lastQueued, extVars>>

\* if _, ok := wsh.connections[c]; ok { delete(wsh.connections, c); close(c.send) }
Removed(c) == connections \ {c}

ClosesMutAlways(c) == [closed EXCEPT ![c] = closed[c] + 1]
Closes(c) == IF c \in connections THEN [closed EXCEPT ![c] = closed[c] + 1] ELSE closed

\* the body of case c := <-wsh.unregister
Unregistered(c) ==
    /\ connections' = Removed(c)
    /\ closed' = Closes(c)
    /\ lastUnregs' = IF connections = {c} THEN lastUnregs + 1 ELSE lastUnregs
    /\ hpc' = AfterMembership

\* case c := <-wsh.unregister, met by Handler's deferred wsh.unregister <- c;
\* Handler then returns and ws.Close() runs
HubUnregister(c) ==
    /\ Alive
    /\ hpc = "select"
    /\ cst[c] = "closing"
    /\ Unregistered(c)
    /\ cst' = [cst EXCEPT ![c] = "done"]
    /\ UNCHANGED <<input, cameraStarted, spc, proc, readVars, videoVars, hmsg, hid,
                   htodo, connectionNumber, attached, firstRegs, rst, wst, send,
                   lastQueued, extVars>>

\* case c := <-wsh.unregister for a connection that is not registered: one
\* that never was, or one already unregistered
StrayUnregister(c) ==
    /\ Alive
    /\ hpc = "select"
    /\ cst[c] \in {"new", "done"}
    /\ Unregistered(c)
    /\ UNCHANGED <<input, cameraStarted, spc, proc, readVars, videoVars, hmsg, hid,
                   htodo, connectionNumber, attached, firstRegs, cst, rst, wst,
                   send, lastQueued, extVars>>

\* wsh.connectionNumber <- len(wsh.connections): waits for room in the channel
HubCount ==
    /\ Alive
    /\ hpc = "count"
    /\ Len(connectionNumber) < CountCap
    /\ connectionNumber' = Append(connectionNumber, Cardinality(connections))
    /\ hpc' = "select"
    /\ UNCHANGED <<input, cameraStarted, spc, proc, readVars, videoVars,
                   connections, hmsg, hid, htodo, attached, firstRegs, lastUnregs,
                   connVars, extVars>>

\* case msg := <-wsh.broadcast, met by the wsh.broadcast <- data of a
\* session's Write, which returns
HubBroadcast(s) ==
    /\ Alive
    /\ hpc = "select"
    /\ spc[s] = "bsend"
    /\ hmsg' = Last(emitted[s])
    /\ hid' = <<s, Len(emitted[s])>>
    /\ htodo' = connections
    /\ hpc' = IF connections = {} THEN "select" ELSE "bcast"
    /\ spc' = [spc EXCEPT ![s] = "select"]
    /\ UNCHANGED <<input, cameraStarted, proc, readVars, videoVars, connections,
                   connectionNumber, attached, firstRegs, lastUnregs, connVars, extVars>>

\* the same, met by the direct caller's Write
HubBroadcastExt ==
    /\ Alive
    /\ hpc = "select"
    /\ xpc = "bsend"
    /\ hmsg' = <<xcount>>
    /\ hid' = <<0, xcount>>
    /\ htodo' = connections
    /\ hpc' = IF connections = {} THEN "select" ELSE "bcast"
    /\ xpc' = "idle"
    /\ UNCHANGED <<input, cameraStarted, spc, proc, readVars, videoVars, connections,
                   connectionNumber, attached, firstRegs, lastUnregs, connVars, xcount>>

\* c.send has room for one more message
HasRoomMutAlways(c) == TRUE
HasRoom(c) == Len(send[c]) < MailboxCap

\* for c := range wsh.connections { select { ... } }, one connection: the
\* message is queued on c.send, or c.send stays full until
\* time.After(100 * time.Millisecond) fires and the message is skipped for c
HubOffer(c) ==
    /\ Alive
    /\ hpc = "bcast"
    /\ c \in htodo
    /\ send' = IF HasRoom(c) THEN [send EXCEPT ![c] = Append(send[c], hmsg)] ELSE send
    /\ lastQueued' = IF HasRoom(c) THEN [lastQueued EXCEPT ![c] = hid] ELSE lastQueued
    /\ htodo' = htodo \ {c}
    /\ hpc' = IF htodo = {c} THEN "select" ELSE "bcast"
    /\ UNCHANGED <<input, cameraStarted, spc, proc, readVars, videoVars, connections,
                   hmsg, hid, connectionNumber, attached, firstRegs, lastUnregs, cst,
                   rst, wst, closed, extVars>>

(***************************************************************************)
(* A connection: Handler and its reader and writer goroutines.             *)
(***************************************************************************)
\* reader: c.ws.ReadMessage() fails (the peer left, or ws.Close() ran); the
\* goroutine goes to its deferred errCh <- true
ReaderFail(c) ==
    /\ Alive
    /\ rst[c] = "run"
    /\ rst' = [rst EXCEPT ![c] = "err"]
    /\ UNCHANGED <<input, cameraStarted, spc, proc, readVars, videoVars, hubVars,
                   cst, wst, send, closed, lastQueued, extVars>>

\* writer: for msg := range c.send, c.ws.WriteMessage succeeds
WriterSend(c) ==
    /\ Alive
    /\ wst[c] = "run"
    /\ send[c] # <<>>
    /\ send' = [send EXCEPT ![c] = Tail(send[c])]
    /\ UNCHANGED <<input, cameraStarted, spc, proc, readVars, videoVars, hubVars,
                   cst, rst, wst, closed, lastQueued, extVars>>

\* writer: c.ws.WriteMessage fails; the goroutine goes to errCh <- true
WriterFail(c) ==
    /\ Alive
    /\ wst[c] = "run"
    /\ send[c] # <<>>
    /\ send' = [send EXCEPT ![c] = Tail(send[c])]
    /\ wst' = [wst EXCEPT ![c] = "err"]
    /\ UNCHANGED <<input, cameraStarted, spc, proc, readVars, videoVars, hubVars,
                   cst, rst, closed, lastQueued, extVars>>

\* writer: c.send is closed and drained, the range loop ends
WriterEnd(c) ==
    /\ Alive
    /\ wst[c] = "run"
    /\ send[c] = <<>>
    /\ closed[c] > 0
    /\ wst' = [wst EXCEPT ![c] = "done"]
    /\ UNCHANGED <<input, cameraStarted, spc, proc, readVars, videoVars, hubVars,
                   cst, rst, send, closed, lastQueued, extVars>>

\* Handler: <-errorCh receives from the reader, then the deferred
\* wsh.unregister <- c begins
HandlerErrReader(c) ==
    /\ Alive
    /\ cst[c] = "open"
    /\ rst[c] = "err"
    /\ rst' = [rst EXCEPT ![c] = "done"]
    /\ cst' = [cst EXCEPT ![c] = "closing"]
    /\ UNCHANGED <<input, cameraStarted, spc, proc, readVars, videoVars, hubVars,
                   wst, send, closed, lastQueued, extVars>>

\* Handler: <-errorCh receives from the writer
HandlerErrWriter(c) ==
    /\ Alive
    /\ cst[c] = "open"
    /\ wst[c] = "err"
    /\ wst' = [wst EXCEPT ![c] = "done"]
    /\ cst' = [cst EXCEPT ![c] = "closing"]
    /\ UNCHANGED <<input, cameraStarted, spc, proc, readVars, videoVars, hubVars,
                   rst, send, closed, lastQueued, extVars>>

(***************************************************************************)
(* A direct caller of the hub's io.Writer.                                 *)
(***************************************************************************)
\* wsh.Write(data) up to its return, or up to its wsh.broadcast <- data;
\* data is the one byte xcount + 1
ExtWrite ==
    /\ Alive
    /\ xpc = "idle"
    /\ xcount < MaxWrites
    /\ xcount' = xcount + 1
    /\ xpc' = IF NoConnection THEN "idle" ELSE "bsend"
    /\ UNCHANGED <<input, cameraStarted, spc, proc, readVars, videoVars, hubVars,
                   connVars>>

(***************************************************************************)
(* Initial states and specifications.                                      *)
(***************************************************************************)
\* "AB" SEP "C" SEP "DEF"
Scenario == <<65, 66, 0, 0, 0, 1, 67, 0, 0, 0, 1, 68, 69, 70>>

\* What the camera writes in a session of the whole program.
CameraOutput == <<2, 0, 0, 0, 1>>

\* NewWebSocketHandler(connectionNumber), go stream.Video(...), no request yet.
InitState ==
    /\ bufferLen = BufferSize
    /\ vpc = "range"
    /\ firstConnection = TRUE
    /\ cameraStarted = 0
    /\ spc = [s \in Sessions |-> "none"]
    /\ proc = [s \in Sessions |-> "none"]
    /\ pos = [s \in Sessions |-> 0]
    /\ buffer = [s \in Sessions |-> <<>>]
    /\ currentPos = [s \in Sessions |-> 0]
    /\ emitted = [s \in Sessions |-> <<>>]
    /\ connections = {}
    /\ hpc = "select"
    /\ hmsg = <<>>
    /\ hid = <<0, 0>>
    /\ htodo = {}
    /\ connectionNumber = <<>>
    /\ cst = [c \in AllConns |-> "new"]
    /\ rst = [c \in AllConns |-> "off"]
    /\ wst = [c \in AllConns |-> "off"]
    /\ send = [c \in AllConns |-> <<>>]
    /\ closed = [c \in AllConns |-> 0]
    /\ lastQueued = [c \in AllConns |-> <<0, 0>>]
    /\ xpc = "idle"
    /\ xcount = 0
    /\ starts = 0
    /\ stops = 0
    /\ firstRegs = 0
    /\ lastUnregs = 0

Init ==
    /\ input = CameraOutput
    /\ attached = TRUE
    /\ InitState

SessionStep(s) ==
    \/ SessLock(s)
    \/ SessStart(s)
    \/ SessStartFail(s)
    \/ SessStop(s)
    \/ SessDefault(s)
    \/ SessRead(s)
    \/ SessReadErr(s)
    \/ ProducerExit(s)
    \/ SessEOF(s)
    \/ SessCancel(s)
    \/ SessWait(s)
    \/ SessUnlock(s)
    \/ SessWrite(s)
    \/ HubBroadcast(s)

ConnStep(c) ==
    \/ HubRegister(c)
    \/ HubUnregister(c)
    \/ HubOffer(c)
    \/ ReaderFail(c)
    \/ WriterSend(c)
    \/ WriterFail(c)
    \/ WriterEnd(c)
    \/ HandlerErrReader(c)
    \/ HandlerErrWriter(c)

\* The whole program.
Next ==
    \/ VideoRecv
    \/ HubCount
    \/ \E s \in Sessions : SessionStep(s)
    \/ \E c \in Conns : ConnStep(c)

Spec == Init /\ [][Next]_vars

\* The Go scheduler runs every goroutine that can take a step, so the steps
\* of Video, of the hub, of the sessions and of the connections' goroutines
\* are taken when they stay possible, and a read returns the output that is
\* there.  Nothing makes the producer exit or write more than its output, a
\* client arrive or leave, or a transport fail.
Fairness ==
    /\ WF_vars(VideoRecv)
    /\ WF_vars(HubCount)
    /\ \A s \in Sessions :
          WF_vars(\/ SessLock(s) \/ SessStart(s) \/ SessStop(s) \/ SessDefault(s)
                  \/ SessRead(s) \/ SessEOF(s) \/ SessCancel(s) \/ SessWait(s) \/ SessUnlock(s)
                  \/ SessWrite(s) \/ HubBroadcast(s))
    /\ \A c \in Conns :
          WF_vars(\/ HubUnregister(c) \/ HubOffer(c) \/ WriterSend(c) \/ WriterEnd(c)
                  \/ HandlerErrReader(c) \/ HandlerErrWriter(c))

SpecFair == Init /\ [][Next]_vars /\ Fairness

\* The whole program serving MaxConns connections.
NextPipeline ==
    \/ VideoRecv
    \/ HubCount
    \/ \E s \in Sessions : SessionStep(s)
    \/ \E c \in AllConns : ConnStep(c)

SpecPipeline == Init /\ [][NextPipeline]_vars

\* The whole program, and requests to unregister connections that are not
\* registered.
NextStray ==
    \/ Next
    \/ \E c \in Conns : StrayUnregister(c)

SpecStray == Init /\ [][NextStray]_vars

\* The hub built with NewWebSocketHandler(nil), its connections, and a
\* caller of its Write.
InitHub ==
    /\ input = <<>>
    /\ attached = FALSE
    /\ InitState

NextHub ==
    \/ ExtWrite
    \/ HubBroadcastExt
    \/ \E c \in Conns : ConnStep(c)

SpecHub == InitHub /\ [][NextHub]_vars

\* The whole program with a camera whose output holds two start codes, so
\* that a session delimits two frames.
OrderedOutput == <<2, 0, 0, 0, 1, 2, 0, 0, 0, 1>>

InitOrder ==
    /\ input = OrderedOutput
    /\ attached = TRUE
    /\ InitState

SpecOrder == InitOrder /\ [][Next]_vars

\* The read loop of a started session over every producer output of up to
\* MaxTokens tokens and over Scenario, cut into reads in every way.
\* The program when the first connection has come and gone, session 1 has
\* started its process, and Video has not yet received the count 0.
SessionOneStarted ==
    /\ attached = TRUE
    /\ vpc = "range"
    /\ firstConnection = FALSE
    /\ cameraStarted = 1
    /\ spc = [s \in Sessions |-> IF s = 1 THEN "select" ELSE "none"]
    /\ proc = [s \in Sessions |-> IF s = 1 THEN "running" ELSE "none"]
    /\ emitted = [s \in Sessions |-> <<>>]
    /\ connections = {}
    /\ hpc = "select"
    /\ hmsg = <<>>
    /\ hid = <<0, 0>>
    /\ htodo = {}
    /\ connectionNumber = <<0>>
    /\ cst = [c \in AllConns |-> IF c = 1 THEN "done" ELSE "new"]
    /\ rst = [c \in AllConns |-> IF c = 1 THEN "done" ELSE "off"]
    /\ wst = [c \in AllConns |-> IF c = 1 THEN "done" ELSE "off"]
    /\ send = [c \in AllConns |-> <<>>]
    /\ closed = [c \in AllConns |-> IF c = 1 THEN 1 ELSE 0]
    /\ lastQueued = [c \in AllConns |-> <<0, 0>>]
    /\ xpc = "idle"
    /\ xcount = 0
    /\ starts = 1
    /\ stops = 0
    /\ firstRegs = 1
    /\ lastUnregs = 1

\* Nothing read yet.
NothingRead ==
    /\ pos = [s \in Sessions |-> 0]
    /\ buffer = [s \in Sessions |-> <<>>]
    /\ currentPos = [s \in Sessions |-> 0]

\* The outputs enumerated: up to MaxTokens tokens, and Scenario.
Outputs == Streams({<<b>> : b \in Byte} \cup {nalSeparator}, MaxTokens) \cup {Scenario}

InitReframe ==
    /\ input \in Outputs
    /\ bufferLen = BufferSize
    /\ NothingRead
    /\ SessionOneStarted

\* The read loop with its buffer about to fill: the producer has written
\* BufferSize - FullMargin bytes without a start code, the session has read
\* them all, and up to MaxTail tokens follow.
LongRun == [i \in 1..(BufferSize - FullMargin) |-> 2]

InitFull ==
    /\ \E tail \in Streams({<<b>> : b \in Byte} \cup {nalSeparator}, MaxTail) :
          input = LongRun \o tail
    /\ bufferLen = BufferSize
    /\ pos = [s \in Sessions |-> IF s = 1 THEN Len(LongRun) ELSE 0]
    /\ buffer = [s \in Sessions |-> IF s = 1 THEN LongRun ELSE <<>>]
    /\ currentPos = [s \in Sessions |-> IF s = 1 THEN Len(LongRun) ELSE 0]
    /\ SessionOneStarted

\* The read loop over the same outputs with the buffer scaled down to
\* SmallBuffer bytes, so that outputs of a few tokens fill it: the loop's
\* arithmetic does not depend on the length.
InitSmall ==
    /\ input \in Outputs
    /\ bufferLen = SmallBuffer
    /\ NothingRead
    /\ SessionOneStarted

NextReframe ==
    \E s \in Sessions :
        \/ SessDefault(s)
        \/ SessRead(s)
        \/ SessReadErr(s)
        \/ SessWrite(s)
        \/ ProducerExit(s)
        \/ SessEOF(s)
        \/ SessCancel(s)
        \/ SessWait(s)
        \/ SessUnlock(s)

SpecReframe == InitReframe /\ [][NextReframe]_vars

SpecFull == InitFull /\ [][NextReframe]_vars

SpecSmall == InitSmall /\ [][NextReframe]_vars

(***************************************************************************)
(* Claims.                                                                 *)
(***************************************************************************)
\* A session between mutex.Lock() and mutex.Unlock(), or whose child
\* process is started and not yet waited for.
Live(s) ==
    \/ spc[s] \notin {"none", "lock", "done"}
    \/ proc[s] \in {"running", "ended", "killed"}

\* C1: at most one producer session runs at any time: no two startCamera
\* goroutines are at once past mutex.Lock() or own an unreaped process, and
\* a session that has returned has cancelled and waited for its process.
C1_AtMostOneSession ==
    /\ \A s, u \in Sessions : s # u => ~(Live(s) /\ Live(u))
    /\ \A s \in Sessions : spc[s] = "done" => proc[s] = "reaped"
    /\ \A s \in Sessions : Live(s) <=> cameraStarted = s

\* C1 witness: after a start, a stop and a second start, the second
\* session runs its process and the first has been torn down.
C1_Witness ==
    \E s, u \in Sessions :
        spc[s] = "done" /\ proc[s] = "reaped" /\ proc[u] = "running" /\ stops >= 1

\* The counts the hub has decided to send and Video has not received.
PendingCounts ==
    connectionNumber \o (IF hpc = "count" THEN <<Cardinality(connections)>> ELSE <<>>)

\* The starts Video will make of the counts q, its flag being fc.
RECURSIVE PendingStarts(_, _)
PendingStarts(q, fc) ==
    IF q = <<>> THEN 0
    ELSE (IF Head(q) # 0 /\ fc THEN 1 ELSE 0) + PendingStarts(Tail(q), Head(q) = 0)

RECURSIVE Zeros(_)
Zeros(q) ==
    IF q = <<>> THEN 0 ELSE (IF Head(q) = 0 THEN 1 ELSE 0) + Zeros(Tail(q))

\* C2: subscriber-count edges: the producer starts made, with those the
\* counts still under way will cause, are exactly the registrations that
\* found the hub empty, and the stop signals likewise are exactly the
\* unregistrations that emptied it; no other registration or
\* unregistration causes a start or a stop.
C2_CountEdges ==
    /\ starts + PendingStarts(PendingCounts, firstConnection) = firstRegs
    /\ stops + Zeros(PendingCounts) = lastUnregs

\* C2 witness: two connections are registered, Video has received both
\* counts, and one producer start was made.
C2_Witness ==
    /\ Cardinality(connections) = 2
    /\ PendingCounts = <<>>
    /\ starts = 1
    /\ stops = 0

\* C3: a connection in the membership set has an open mailbox, the hub
\* offers messages to open mailboxes only, a connection removed from the
\* set has had its mailbox closed exactly once, and no mailbox is closed
\* twice.
C3_Mailboxes ==
    \A c \in Conns :
        /\ c \in connections => closed[c] = 0
        /\ c \in htodo => c \in connections
        /\ cst[c] \in {"open", "closing"} => c \in connections
        /\ cst[c] = "done" => c \notin connections /\ closed[c] = 1
        /\ closed[c] <= 1

\* C3 witness: one connection has been removed and its mailbox closed
\* while another is registered and is being offered a message.
C3_Witness ==
    \E c, d \in Conns :
        /\ cst[c] = "done" /\ closed[c] = 1
        /\ d \in connections /\ d \in htodo

\* Messages in a mailbox carry increasing bytes: none is queued twice.
Increasing(q) == \A i, j \in 1..Len(q) : i < j => q[i][1] < q[j][1]

\* C4: fan-out isolation: the range loop visits every connection
\* registered when the broadcast is received; each visit queues the message
\* once on a mailbox with room and leaves a full mailbox as it is, touches
\* no other mailbox, keeps the connection registered and the caller
\* returned; after the last visit the hub is back at its select.
C4_FanOut ==
    [][ /\ (hpc = "select" /\ hpc' = "bcast") => htodo' = connections
        /\ (hpc = "bcast" /\ htodo' # htodo) =>
             \E c \in htodo :
                /\ htodo' = htodo \ {c}
                /\ send' = [send EXCEPT ![c] =
                              IF Len(send[c]) < MailboxCap
                              THEN Append(send[c], hmsg) ELSE send[c]]
                /\ connections' = connections
                /\ hmsg' = hmsg
                /\ xpc' = xpc
                /\ hpc' = IF htodo' = {} THEN "select" ELSE "bcast"
        /\ \A c \in Conns : Len(send'[c]) <= MailboxCap /\ Increasing(send'[c])
      ]_vars

\* C4 witness: the hub is back at its select, the last message is queued
\* for one connection and was dropped for another, whose mailbox is full
\* and which is still registered.
C4_Witness ==
    \E c, d \in Conns :
        /\ c # d /\ c \in connections /\ d \in connections
        /\ hpc = "select" /\ hmsg # <<>>
        /\ Len(send[c]) = MailboxCap
        /\ \A i \in 1..Len(send[c]) : send[c][i] # hmsg
        /\ \E i \in 1..Len(send[d]) : send[d][i] = hmsg

\* C5 as claimed, on the instance it names: when "AB" SEP "C" SEP "DEF"
\* arrives in one read, the loop emits the segments between the start
\* codes, "AB" and "C", in order, and keeps only the bytes after the last
\* start code, "DEF", in the buffer.
C5_ScenarioOneRead ==
    [][ \A s \in Sessions :
          (spc[s] = "read" /\ input = Scenario /\ pos[s] = 0 /\ pos'[s] = Len(input)) =>
             /\ emitted'[s] = <<<<65, 66>>, <<67>>>>
             /\ buffer'[s] = <<68, 69, 70>>
      ]_vars

\* C6 as claimed: however the output is cut into reads, once it is all
\* read the frames emitted are those emitted when it arrives in one read.
C6_ChunkIndependent ==
    \A s \in Sessions :
        (pos[s] = Len(input) /\ pos[s] > 0) =>
            emitted[s] = Iterate(<<>>, 0, input).frames

\* f holds the start code somewhere.
HasStartCode(f) == BytesIndex(f, nalSeparator) # -1

C8_NoEmptyFrame ==
    [][ \A s \in Sessions :
          /\ \A k \in 1..Len(emitted'[s]) : emitted'[s][k] # <<>>
          /\ (/\ spc[s] = "read"
              /\ pos'[s] > pos[s]
              /\ StartPosSearch(currentPos[s]) = 0
              /\ BytesIndex(buffer[s] \o Slice(input, pos[s], pos'[s]), nalSeparator) = 0)
             => /\ emitted'[s] = emitted[s]
                /\ buffer'[s] = buffer[s] \o Slice(input, pos[s], pos'[s])
                /\ currentPos'[s] = Len(buffer'[s])
                /\ spc'[s] = "select"
      ]_vars

\* C8 witness: the output began with the start code; the read that
\* completed it was scanned from offset 0, nothing was emitted and the
\* buffer holds the start code and the byte read after it.
C8_Witness ==
    \E s \in Sessions :
        /\ emitted[s] = <<>>
        /\ spc[s] = "select"
        /\ buffer[s] = nalSeparator \o <<2>>
        /\ currentPos[s] = NALlen + 1

\* C9: a Write made while the hub has no connection returns at once: the
\* caller is not left sending on the broadcast channel, no mailbox is
\* written, the membership set is as it was and no count is emitted.
C9_WriteNoConnection ==
    [][ \A s \in Sessions :
          (spc[s] = "write" /\ spc'[s] # "write" /\ connections = {}) =>
             /\ spc'[s] = "select"
             /\ UNCHANGED <<send, connections, connectionNumber, hpc, hmsg, htodo>>
      ]_vars

\* C9 witness: a session has emitted a frame and is back at its select,
\* and the hub has never received a broadcast.
C9_Witness ==
    \E s \in Sessions :
        /\ emitted[s] # <<>>
        /\ spc[s] = "select"
        /\ hmsg = <<>>
    /\ hid = <<0, 0>>
        /\ connections = {}

\* C10 as claimed: the hub sets out to emit a count only when the
\* membership set has changed size, so an unregister request for a
\* connection that is not registered changes nothing.
C10_CountOnlyOnChange ==
    [][ (hpc = "select" /\ hpc' = "count") =>
            Cardinality(connections') # Cardinality(connections) ]_vars

(***************************************************************************)
(* Ordering, counts, shared state.                                         *)
(***************************************************************************)
\* hid a comes before hid b: an earlier session, or an earlier frame of
\* the same session.  Sessions run one after the other (C1), so this is the
\* order of the Write calls.
IdLess(a, b) == a[1] < b[1] \/ (a[1] = b[1] /\ a[2] < b[2])

\* The frames of a sequence, laid end to end.
RECURSIVE Flatten(_)
Flatten(frames) ==
    IF frames = <<>> THEN <<>> ELSE Head(frames) \o Flatten(Tail(frames))

\* q is p with at most one more element at its end.
Extends(q, p) ==
    \/ q = p
    \/ Len(q) = Len(p) + 1 /\ SubSeq(q, 1, Len(p)) = p

\* C11: ordering: a session passes frames to the writer one after another,
\* in the order their bytes lie in the producer's output; the hub receives
\* each Write's frame after all it received before, in the order of the
\* Write calls; a mailbox only grows at its end, by the frame the hub is
\* broadcasting, which comes after every frame queued on that mailbox
\* before: what a mailbox is given is an order-preserving selection of what
\* was written, without repeats.
C11_Ordering ==
    [][ /\ \A s \in Sessions :
             /\ Extends(emitted'[s], emitted[s])
             /\ Flatten(emitted'[s]) = Slice(input, 0, Len(Flatten(emitted'[s])))
        /\ hid' # hid =>
             /\ IdLess(hid, hid')
             /\ \E s \in Sessions :
                   /\ spc[s] = "bsend"
                   /\ hid' = <<s, Len(emitted[s])>>
                   /\ hmsg' = emitted[s][Len(emitted[s])]
        /\ \A c \in AllConns :
             /\ Len(send'[c]) > Len(send[c]) =>
                   /\ send'[c] = Append(send[c], hmsg)
                   /\ lastQueued'[c] = hid
                   /\ IdLess(lastQueued[c], hid)
             /\ lastQueued'[c] # lastQueued[c] => Len(send'[c]) > Len(send[c])
      ]_vars

\* C11 witness: a session has written two frames; one mailbox holds both
\* in the order written, another, registered later, holds only the second.
C11_Witness ==
    \E s \in Sessions : \E c, d \in Conns :
        /\ Len(emitted[s]) = 2
        /\ emitted[s][1] # emitted[s][2]
        /\ send[c] = emitted[s]
        /\ send[d] = <<emitted[s][2]>>
        /\ lastQueued[c] = <<s, 2>> /\ lastQueued[d] = <<s, 2>>

\* C12: with a count consumer attached, every register and unregister the
\* hub processes is followed by one emission on the count channel, made
\* before the hub does anything else: the set is as that operation left it
\* when its size is sent, the value sent is that size, and it is queued
\* behind the values of the operations processed before.
C12_CountAfterEachChange ==
    [][ /\ (\E c \in AllConns : cst'[c] # cst[c] /\ cst'[c] \in {"open", "done"})
             => hpc = "select" /\ hpc' = "count"
        /\ connections' # connections => hpc = "select" /\ hpc' = "count"
        /\ hpc = "count" =>
             /\ connections' = connections
             /\ hpc' = "select" =>
                   connectionNumber' = Append(connectionNumber, Cardinality(connections))
        /\ Len(connectionNumber') > Len(connectionNumber) => hpc = "count" /\ hpc' = "select"
      ]_vars

\* C12 witness: two registrations and one unregistration were processed;
\* the counts 2 and 1 wait in the channel in that order and the set holds
\* the one connection left.
C12_Witness ==
    /\ connectionNumber = <<2, 1>>
    /\ Cardinality(connections) = 1
    /\ hpc = "select"

\* A session is in Write at its read of len(wsh.connections).
ReadsSet(s) == spc[s] = "write"

\* The hub's loop is at its select with a register or an unregister request
\* to receive: its next step may insert into or delete from the map.
MutationDue == hpc = "select" /\ \E c \in Conns : cst[c] \in {"new", "closing"}

\* C13 as claimed: only the hub's loop touches the membership set, so no
\* goroutine is ever at an access to the set while the hub is free to
\* change it with nothing ordering the two.
C13_HubOnlyAccess ==
    \A s \in Sessions : ~(ReadsSet(s) /\ MutationDue)

(***************************************************************************)
(* Session end, spawn failure, teardown, stop.                             *)
(***************************************************************************)
\* No startCamera goroutine exists that could receive from stopChan: each
\* has returned or was never started.
NoReceiver == \A s \in Sessions : spc[s] \in {"none", "done"}

\* C14 as claimed: after a session has ended on end of file, Video goes on
\* consuming counts: it is never left in its send on stopChan with no
\* session to receive it.
C14_ZeroAfterEOF == ~(vpc = "stop" /\ NoReceiver)

\* C15 as claimed: a failure to set up or start the producer ends that
\* session attempt only: the process, with its hub and its control loop,
\* keeps running.
C15_SpawnFailureContained == Alive

\* Handler has returned for c: nothing will receive from its errorCh again.
Returned(c) == cst[c] = "done"

\* C16 as claimed: once Handler has returned, neither loop of the
\* connection is left blocked: none sits in its send on errCh, which has no
\* receiver any more.
C16_LoopsTornDown ==
    \A c \in Conns : Returned(c) => rst[c] # "err" /\ wst[c] # "err"

\* C17 as claimed: a stop sent while the session waits in its read is
\* taken without more output from the producer: when Video is in its send
\* on stopChan and the session is inside stdout.Read with the producer
\* alive, the session gets to its return.
C17_StopObserved ==
    \A s \in Sessions :
        (vpc = "stop" /\ spc[s] = "read" /\ proc[s] = "running")
            ~> (spc[s] \in {"cancel", "wait", "unlock", "done"})

\* Video is in its send on stopChan, a session is in Write's send on the
\* broadcast channel, and the hub is in its send on the full count channel:
\* each waits for a goroutine that is itself waiting.
Deadlocked ==
    /\ vpc = "stop"
    /\ \E s \in Sessions : spc[s] = "bsend"
    /\ hpc = "count"
    /\ Len(connectionNumber) = CountCap

\* C18 as claimed: Video, the running session and the hub are never all
\* three blocked on one another.
C18_NoDeadlock == ~Deadlocked

(***************************************************************************)
(* The read loop's buffer.                                                 *)
(***************************************************************************)
\* C19: byte conservation: while the buffer has not filled, the frames a
\* session has emitted, laid end to end, followed by buffer[0:currentPos]
\* are exactly the bytes it has read from the producer, in order.
C19_BytesConserved ==
    \A s \in Sessions :
        currentPos[s] < bufferLen =>
            /\ currentPos[s] = Len(buffer[s])
            /\ Flatten(emitted[s]) \o buffer[s] = Slice(input, 0, pos[s])

\* C19 witness: a session has carved two frames and shifted twice, has
\* read all the output, and bytes remain in its buffer.
C19_Witness ==
    \E s \in Sessions :
        /\ Len(emitted[s]) = 2
        /\ pos[s] = Len(input)
        /\ Len(buffer[s]) > NALlen

\* lo and hi are good bounds of a slice expression on the buffer.
Within(lo, hi) == 0 <= lo /\ lo <= hi /\ hi <= bufferLen

\* C20: in every iteration of the read loop, whatever the producer wrote,
\* the slice bounds stay inside the buffer: the copy destination
\* buffer[currentPos:], the search window buffer[startPosSearch:endPos],
\* and on a match the frame buffer[0:nalIndex] and the shift source
\* buffer[nalIndex:currentPos]; and currentPos ends between 0 and the
\* buffer's capacity.
C20_InBounds ==
    [][ \A s \in Sessions :
          (spc[s] = "read" /\ spc'[s] \in {"select", "write"}) =>
             LET cp     == currentPos[s]
                 p      == Slice(input, pos[s], pos'[s])
                 endPos == cp + Copied(cp, Len(p))
                 start  == StartPosSearch(cp)
                 rel    == NalIndex(buffer[s], cp, p)
             IN /\ Len(p) <= readBufferSize
                /\ Within(cp, bufferLen)
                /\ Within(start, endPos)
                /\ Found(rel) => Within(0, rel + start) /\ Within(rel + start, endPos)
                /\ Within(0, currentPos'[s])
                /\ Len(buffer'[s]) = currentPos'[s]
      ]_vars

\* C20 witness: no start code ever came; the buffer is full, the session
\* has read past its capacity and goes on reading.
C20_Witness ==
    \E s \in Sessions :
        /\ currentPos[s] = bufferLen
        /\ pos[s] > bufferLen
        /\ emitted[s] = <<>>
        /\ spc[s] = "read"

====
